---- MODULE Spec2Model ----
(***************************************************************************)
(* Model of the Smartsheet workspace auditor's data-fetch layer            *)
(* (smartsheetService: smartsheetFetch, listAllWorkspaces,                 *)
(* getWorkspaceShares, processAllWorkspaces).                              *)
(*                                                                         *)
(* A JavaScript string is modelled as the sequence of its words, so that   *)
(* String.prototype.includes is a search for a contiguous run of words and *)
(* Array.prototype.join puts a separator word between the parts.  The      *)
(* empty string is the empty sequence.                                     *)
(*                                                                         *)
(* One action is one run of an async function from the point where it is   *)
(* resumed to its next await (or its return): the program is single        *)
(* threaded, and it yields only at an await.                               *)
(***************************************************************************)
EXTENDS Integers, Sequences, FiniteSets, TLC

VARIABLES
    apiKey,         \* processAllWorkspaces' argument apiKey
    onProgress,     \* TRUE iff an onProgress observer was supplied
    pc,             \* where processAllWorkspaces stands: idle, listing (in
                    \* listAllWorkspaces), listed (listAllWorkspaces has
                    \* returned allWorkspaces), detail (awaits a share
                    \* list), pause (awaits the timer), done, failed
    allWorkspaces,  \* listAllWorkspaces: accumulator
    currentPage,    \* listAllWorkspaces: page counter
    totalPages,     \* listAllWorkspaces: latest totalPages
    workspaces,     \* processAllWorkspaces: the listing
    details,        \* processAllWorkspaces: the records so far
    i,              \* processAllWorkspaces: loop index (0-based)
    outcome,        \* how processAllWorkspaces ended: its value or its error
    fetchState,     \* the pending smartsheetFetch call: none, inflight, settled
    url,            \* its argument url
    useFallback,    \* its argument useFallback
    hops,           \* the HTTP GETs it issued, each with the answer it got
    settled,        \* what its promise settled with
    progress,       \* the messages handed to onProgress, in order
    pageReqs,       \* the page numbers the running or just ended
                    \* listAllWorkspaces call asked for, in order
    served,         \* the pages it got: data and totalPages of each
    shareReqs,      \* the workspace ids getWorkspaceShares was called for
    sharesGot,      \* per workspace processed: what getWorkspaceShares gave
    events,         \* what processAllWorkspaces did, in program order: the
                    \* calls of onProgress, the calls of getWorkspaceShares
                    \* and their ends (the await returned or threw)
    app,            \* the App component's state: apiKey, workspaceDetails,
                    \* isLoading, loadingMessage, error, filters, sortConfig
    inFlight        \* the calls of processAllWorkspaces the App awaits, each
                    \* with the apiKey it was given

vars == <<apiKey, onProgress, pc, allWorkspaces, currentPage, totalPages,
          workspaces, details, i, outcome, fetchState, url, useFallback,
          hops, settled, progress, pageReqs, served, shareReqs, sharesGot,
          events, app, inFlight>>

-----------------------------------------------------------------------------
(* Bounds of the model *)

\* the largest totalPages value the upstream reports
MaxTotalPages == 2

\* the most workspaces the pages of one listing hold together
MaxWorkspaces == 3

\* the most entries of a share list in SpecReduce
MaxShares == 2

\* the last page that is answered in SpecPaging
MaxPages == 3

-----------------------------------------------------------------------------
(* Strings *)

\* String.prototype.includes
Includes(s, pat) ==
    \E k \in 0..(Len(s) - Len(pat)) : SubSeq(s, k + 1, k + Len(pat)) = pat

\* Array.prototype.join
RECURSIVE Join(_, _)
Join(parts, sep) ==
    IF parts = <<>> THEN <<>>
    ELSE IF Len(parts) = 1 THEN parts[1]
    ELSE parts[1] \o sep \o Join(Tail(parts), sep)

\* the JavaScript value undefined (an argument that was not passed)
undefined == [type |-> "undefined"]

\* a JavaScript string value
JsString(s) == [type |-> "string", value |-> s]

\* a guard that tests only for the absent value
FalsyUndefinedOnly(v) == v.type = "undefined"

\* !v for a value that is a string or undefined
Falsy(v) == v.type = "undefined" \/ v.value = <<>>

-----------------------------------------------------------------------------
(* The proxies and the resources *)

PRIMARY_PROXY == "https://api.allorigins.win/raw?url="
SECONDARY_PROXY == "https://corsproxy.io/?"

\* `${API_BASE_URL}/workspaces?page=${currentPage}&pageSize=1000`
WorkspacesUrl(page) == [resource |-> "workspaces", page |-> page]

\* `${API_BASE_URL}/workspaces/${workspaceId}/shares`
SharesUrl(workspaceId) == [resource |-> "shares", workspaceId |-> workspaceId]

-----------------------------------------------------------------------------
(* Error messages of smartsheetFetch *)

MsgKeyMissing == <<"Smartsheet", "API", "Key", "is", "missing.">>

MsgForbidden ==
    <<"Forbidden", "(403):", "Smartsheet", "rejected", "the", "request.",
      "This", "often", "means", "your", "API", "key", "lacks", "\"Admin\"",
      "permissions,", "or", "your", "Smartsheet", "account", "has", "IP",
      "restrictions", "that", "block", "the", "proxy.", "Ensure", "your",
      "key", "has", "full", "access", "to", "the", "target", "resources.">>

MsgUnauthorized ==
    <<"Unauthorized", "(401):", "Invalid", "Smartsheet", "API", "token.">>

MsgRateLimit ==
    <<"Rate", "Limit", "(429):", "Too", "many", "requests.", "Waiting",
      "60s", "is", "recommended.">>

\* `Smartsheet API Error (${response.status}): ${errorText || response.statusText}`
MsgApiError(status, text) ==
    <<"Smartsheet", "API", "Error", "(", ToString(status), "):">> \o text

MsgProxyUnreachable ==
    <<"Network", "Error:", "The", "CORS", "proxy", "is", "unreachable.",
      "This", "is", "almost", "certainly", "caused", "by", "a", "browser",
      "extension", "(like", "uBlock", "Origin,", "AdBlock)", "or", "a",
      "corporate", "firewall", "blocking", "known", "proxy", "domains.",
      "Please", "disable", "extensions", "and", "try", "again.">>

\* response.json() of a body that is no JSON: a SyntaxError
MsgSyntaxError ==
    <<"Unexpected", "token", "<", "in", "JSON", "at", "position", "0">>

\* reading a property of null: a TypeError
MsgNullProperty ==
    <<"Cannot", "read", "properties", "of", "null", "(reading", "'data')">>

\* iterating a value that is no array: a TypeError
MsgNotIterable == <<"response.data", "is", "not", "iterable">>

-----------------------------------------------------------------------------
(* What the network can answer to one HTTP GET *)

\* The messages of the TypeError fetch() rejects with when the request does
\* not complete: Chromium, WebKit, Gecko, and the XHR-based fetch polyfill.
TransportMessages ==
    { <<"Failed", "to", "fetch">>,
      <<"Load", "failed">>,
      <<"NetworkError", "when", "attempting", "to", "fetch", "resource.">>,
      <<"Network", "request", "failed">> }

TransportFailures == { [t |-> "transport", message |-> m] : m \in TransportMessages }

\* the texts of an error body
ErrorTexts == { <<>>, <<"Could", "not", "fetch", "the", "requested", "URL">> }

StatusText(status) ==
    CASE status = 401 -> <<"Unauthorized">>
      [] status = 403 -> <<"Forbidden">>
      [] status = 404 -> <<"Not", "Found">>
      [] status = 429 -> <<"Too", "Many", "Requests">>
      [] OTHER -> <<"Internal", "Server", "Error">>

\* responses with response.ok false
ErrorStatuses == {401, 403, 404, 429, 500}

\* readable FALSE: response.text() rejects
StatusResponses ==
    { [t |-> "status", status |-> s, readable |-> TRUE, text |-> x] :
        s \in ErrorStatuses, x \in ErrorTexts }
    \cup { [t |-> "status", status |-> s, readable |-> FALSE, text |-> <<>>] :
             s \in ErrorStatuses }

\* JSON bodies
JsonNull == [null |-> TRUE]
NotJson == [notJson |-> TRUE]

\* a JSON array, and a JSON value that is truthy and no array: the object {}
Arr(a) == [array |-> a]
NotIterable == [object |-> "{}"]
IsArray(v) == "array" \in DOMAIN v

\* a 2xx body that reports an error of the API
ErrorBody ==
    [errorCode |-> 1004,
     message |-> <<"You", "are", "not", "authorized", "to", "perform",
                   "this", "action.">>]

Alpha == [id |-> 1, name |-> <<"Alpha">>]
Beta == [id |-> 2, name |-> <<"Beta">>]
Gamma == [id |-> 3, name |-> <<"Gamma">>]

\* the data arrays of a listing page
PageDatas == { <<>>, <<Alpha, Beta>>, <<Gamma>> }

\* PaginatedResponse<Workspace>, its fields the code reads; totalPages 0 also
\* stands for a page that carries none
ListingBodies ==
    { [data |-> Arr(d), totalPages |-> n] : d \in PageDatas, n \in 0..MaxTotalPages }
    \cup { [data |-> NotIterable, totalPages |-> 1], JsonNull, ErrorBody, NotJson }

ShareOwner == [id |-> "s1", type |-> "USER", email |-> <<"a@x.com">>, accessLevel |-> "OWNER"]
ShareEditor == [id |-> "s2", type |-> "USER", name |-> <<"Bob">>, accessLevel |-> "EDITOR"]
ShareViewer == [id |-> "s3", type |-> "GROUP", email |-> <<>>, accessLevel |-> "VIEWER"]

\* the data arrays of a share list
ShareLists == { <<>>, <<ShareOwner, ShareEditor>>, <<ShareViewer>> }

SharesBodies ==
    { [data |-> Arr(d)] : d \in ShareLists }
    \cup { [data |-> NotIterable], JsonNull, ErrorBody, NotJson }

\* the answers to a GET of url u, of a listing that holds `held` workspaces
Answers(u, held) ==
    TransportFailures \cup StatusResponses
    \cup { [t |-> "ok", json |-> b] :
             b \in IF u.resource = "workspaces"
                   THEN { p \in ListingBodies :
                            ("data" \in DOMAIN p /\ IsArray(p.data))
                                => held + Len(p.data.array) <= MaxWorkspaces }
                   ELSE SharesBodies }

-----------------------------------------------------------------------------
(* smartsheetFetch *)

Return(v) == [kind |-> "return", value |-> v]
Throw(e) == [kind |-> "throw", error |-> e]
Retry == [kind |-> "retry"]

\* the try block: what one answer of the network makes of the request
TryBlock(answer) ==
    IF answer.t = "transport" THEN Throw(answer.message)
    ELSE IF answer.t = "status" THEN
        IF answer.status = 403 THEN Throw(MsgForbidden)
        ELSE IF answer.status = 401 THEN Throw(MsgUnauthorized)
        ELSE IF answer.status = 429 THEN Throw(MsgRateLimit)
        ELSE LET errorText == IF answer.readable
                              THEN answer.text
                              ELSE <<"No", "error", "body">>
             IN  Throw(MsgApiError(answer.status,
                                   IF errorText = <<>>
                                   THEN StatusText(answer.status)
                                   ELSE errorText))
    ELSE IF answer.json = NotJson THEN Throw(MsgSyntaxError)
    ELSE Return(answer.json)

\* a retry condition that does not test useFallback
ShouldFallbackAgain(fallback, err) ==
    Includes(err, <<"fetch">>) \/ Includes(err, <<"Load", "failed">>)

\* the condition of the retry through the secondary proxy
ShouldFallback(fallback, err) ==
    /\ ~fallback
    /\ Includes(err, <<"fetch">>) \/ Includes(err, <<"Load", "failed">>)

\* the catch block
CatchBlock(fallback, err) ==
    IF ShouldFallback(fallback, err) THEN Retry
    ELSE IF \/ Includes(err, <<"Failed", "to", "fetch">>)
            \/ Includes(err, <<"Load", "failed">>)
         THEN Throw(MsgProxyUnreachable)
         ELSE Throw(err)

\* one answer handled: the value returned, the error thrown, or the retry
HandleAnswer(fallback, answer) ==
    LET r == TryBlock(answer)
    IN  IF r.kind = "throw" THEN CatchBlock(fallback, r.error) ELSE r

\* a retry that goes through the primary proxy again
ProxyForPrimaryOnly(fallback) == PRIMARY_PROXY

\* const proxy = useFallback ? SECONDARY_PROXY : PRIMARY_PROXY
ProxyFor(fallback) == IF fallback THEN SECONDARY_PROXY ELSE PRIMARY_PROXY

\* the answer of a GET that is in flight
Pending == [t |-> "pending"]
None == [none |-> TRUE]

\* a GET just issued through the proxy of the call
Get(fallback, u) == [proxy |-> ProxyFor(fallback), url |-> u, answer |-> Pending]

\* no smartsheetFetch call is pending
FetchIdle ==
    /\ fetchState' = "none"
    /\ url' = None
    /\ useFallback' = FALSE
    /\ hops' = <<>>
    /\ settled' = None

\* smartsheetFetch(u, apiKey) up to its first await: the guard, then the GET
\* through the primary proxy
CallFetch(u) ==
    /\ url' = u
    /\ useFallback' = FALSE
    /\ IF Falsy(apiKey)
       THEN /\ fetchState' = "settled"
            /\ settled' = Throw(MsgKeyMissing)
            /\ hops' = <<>>
       ELSE /\ fetchState' = "inflight"
            /\ settled' = None
            /\ hops' = <<Get(FALSE, u)>>

\* The network answers the GET in flight with one of answers and
\* smartsheetFetch resumes: it settles, or it calls itself with
\* useFallback = true, which runs up to the GET through the secondary proxy.
FetchAnswerOf(answers) ==
    /\ fetchState = "inflight"
    /\ \E answer \in answers :
         LET r == HandleAnswer(useFallback, answer)
             answered == [hops EXCEPT ![Len(hops)].answer = answer]
         IN  IF r = Retry
             THEN /\ useFallback' = TRUE
                  /\ IF Falsy(apiKey)
                     THEN /\ fetchState' = "settled"
                          /\ settled' = Throw(MsgKeyMissing)
                          /\ hops' = answered
                     ELSE /\ fetchState' = "inflight"
                          /\ settled' = None
                          /\ hops' = Append(answered, Get(TRUE, url))
             ELSE /\ fetchState' = "settled"
                  /\ settled' = r
                  /\ hops' = answered
                  /\ UNCHANGED useFallback
    /\ UNCHANGED <<app, inFlight>>
    /\ UNCHANGED <<apiKey, onProgress, pc, allWorkspaces, currentPage,
                   totalPages, workspaces, details, i, outcome, url, progress,
                   pageReqs, served, shareReqs, sharesGot, events>>

\* the network answers the GET in flight
FetchAnswer == FetchAnswerOf(Answers(url, Len(allWorkspaces)))

-----------------------------------------------------------------------------
(* The reduction of a share list to a record *)

\* an identity that falls back only when a field is absent (?? for ||)
IdentityNullish(share) ==
    IF "email" \in DOMAIN share THEN share.email
    ELSE IF "name" \in DOMAIN share THEN share.name
    ELSE <<"Unknown", "User">>

\* an identity that prefers the name to the email
IdentityNameFirst(share) ==
    IF "name" \in DOMAIN share /\ share.name # <<>> THEN share.name
    ELSE IF "email" \in DOMAIN share /\ share.email # <<>> THEN share.email
    ELSE <<"Unknown", "User">>

\* share.email || share.name || 'Unknown User'
Identity(share) ==
    IF "email" \in DOMAIN share /\ share.email # <<>> THEN share.email
    ELSE IF "name" \in DOMAIN share /\ share.name # <<>> THEN share.name
    ELSE <<"Unknown", "User">>

\* a loop that lists an identity among the members once only
RECURSIVE ReduceSharesDistinct(_, _)
ReduceSharesDistinct(shares, acc) ==
    IF shares = <<>> THEN acc
    ELSE LET share == Head(shares)
         IN  ReduceSharesDistinct(Tail(shares),
                 IF share.accessLevel = "OWNER"
                 THEN [acc EXCEPT !.owner = Identity(share)]
                 ELSE IF \E k \in 1..Len(acc.members) : acc.members[k] = Identity(share)
                 THEN acc
                 ELSE [acc EXCEPT !.members = Append(@, Identity(share)),
                                  !.permissions = Append(@, <<share.accessLevel>>)])

\* a loop that keeps the first OWNER entry it meets
RECURSIVE ReduceSharesFirstOwner(_, _)
ReduceSharesFirstOwner(shares, acc) ==
    IF shares = <<>> THEN acc
    ELSE LET share == Head(shares)
         IN  ReduceSharesFirstOwner(Tail(shares),
                 IF share.accessLevel = "OWNER"
                 THEN IF acc.owner = <<"N/A">>
                      THEN [acc EXCEPT !.owner = Identity(share)]
                      ELSE acc
                 ELSE [acc EXCEPT !.members = Append(@, Identity(share)),
                                  !.permissions = Append(@, <<share.accessLevel>>)])

\* a loop that also lists the owner among the members
RECURSIVE ReduceSharesOwnerListed(_, _)
ReduceSharesOwnerListed(shares, acc) ==
    IF shares = <<>> THEN acc
    ELSE LET share == Head(shares)
         IN  ReduceSharesOwnerListed(Tail(shares),
                 IF share.accessLevel = "OWNER"
                 THEN [acc EXCEPT !.owner = Identity(share),
                                  !.members = Append(@, Identity(share))]
                 ELSE [acc EXCEPT !.members = Append(@, Identity(share)),
                                  !.permissions = Append(@, <<share.accessLevel>>)])

\* the loop over the shares, from the accumulated owner, members, permissions
RECURSIVE ReduceShares(_, _)
ReduceShares(shares, acc) ==
    IF shares = <<>> THEN acc
    ELSE LET share == Head(shares)
         IN  ReduceShares(Tail(shares),
                 IF share.accessLevel = "OWNER"
                 THEN [acc EXCEPT !.owner = Identity(share)]
                 ELSE [acc EXCEPT !.members = Append(@, Identity(share)),
                                  !.permissions = Append(@, <<share.accessLevel>>)])

\* a record whose owner starts from the owner of the record before: owner
\* declared outside the for loop
ReducedOwnerCarried(workspace, shares) ==
    LET acc == ReduceShares(shares,
                   [owner |-> IF details = <<>> THEN <<"N/A">>
                              ELSE details[Len(details)].owner,
                    members |-> <<>>, permissions |-> <<>>])
    IN  [workspaceName |-> workspace.name,
         owner |-> acc.owner,
         members |-> IF Len(acc.members) > 0
                     THEN Join(acc.members, <<"\n">>)
                     ELSE <<"Private", "(No", "other", "users)">>,
         permissions |-> IF Len(acc.permissions) > 0
                         THEN Join(acc.permissions, <<"\n">>)
                         ELSE <<"N/A">>]

\* a record that joins the lists whatever their length
ReducedJoinedOnly(workspace, shares) ==
    LET acc == ReduceShares(shares,
                   [owner |-> <<"N/A">>, members |-> <<>>, permissions |-> <<>>])
    IN  [workspaceName |-> workspace.name,
         owner |-> acc.owner,
         members |-> Join(acc.members, <<"\n">>),
         permissions |-> Join(acc.permissions, <<"\n">>)]

\* the record pushed for a workspace whose share list was fetched
Reduced(workspace, shares) ==
    LET acc == ReduceShares(shares,
                   [owner |-> <<"N/A">>, members |-> <<>>, permissions |-> <<>>])
    IN  [workspaceName |-> workspace.name,
         owner |-> acc.owner,
         members |-> IF Len(acc.members) > 0
                     THEN Join(acc.members, <<"\n">>)
                     ELSE <<"Private", "(No", "other", "users)">>,
         permissions |-> IF Len(acc.permissions) > 0
                         THEN Join(acc.permissions, <<"\n">>)
                         ELSE <<"N/A">>]

\* a catch block that pushes the texts of the revision before
RestrictedBefore(workspace) ==
    [workspaceName |-> workspace.name,
     owner |-> <<"Restricted", "access">>,
     members |-> <<"Could", "not", "fetch", "list">>,
     permissions |-> <<"Check", "your", "permissions">>]

\* the record pushed in the catch block
Restricted(workspace) ==
    [workspaceName |-> workspace.name,
     owner |-> <<"Restricted", "Access">>,
     members |-> <<"Check", "your", "API", "token", "permissions">>,
     permissions |-> <<"N/A">>]

\* getWorkspaceShares, from what its smartsheetFetch call settled with
GetWorkspaceShares(result) ==
    IF result.kind = "throw" THEN result
    ELSE IF result.value = JsonNull THEN Throw(MsgNullProperty)
    ELSE IF "data" \in DOMAIN result.value THEN Return(result.value.data)
    ELSE Return(Arr(<<>>))

-----------------------------------------------------------------------------
(* processAllWorkspaces and listAllWorkspaces *)

MsgConnecting == <<"Connecting", "to", "Smartsheet", "API...">>

MsgDiscovered(total) ==
    <<"Discovered", ToString(total), "workspaces.", "Auditing", "permissions...">>

MsgAnalyzing(k, total, name) ==
    <<"Analyzing", ToString(k + 1), "of", ToString(total), ":">> \o name

\* if (onProgress) onProgress(msg)
Notify(log, msg) == IF onProgress THEN Append(log, msg) ELSE log

\* the entries of events
Notified(msg) == [e |-> "notify", msg |-> msg]
Requested(workspaceId) == [e |-> "request", workspaceId |-> workspaceId]
Finished(workspaceId) == [e |-> "finish", workspaceId |-> workspaceId]

\* if (onProgress) onProgress(msg), in events
NotifyEvent(ev, msg) == IF onProgress THEN Append(ev, Notified(msg)) ELSE ev

\* a loop body that calls the observer after it has called getWorkspaceShares
AnnouncedLate(ev, msg, workspaceId) ==
    NotifyEvent(Append(ev, Requested(workspaceId)), msg)

\* the loop body up to its await: the call of the observer, then the call of
\* getWorkspaceShares
Announced(ev, msg, workspaceId) ==
    Append(NotifyEvent(ev, msg), Requested(workspaceId))

\* a loop that walks the listing from its end
WorkspaceAtReversed(list, k) == list[Len(list) - k]

\* workspaces[i]
WorkspaceAt(list, k) == list[k + 1]

\* The for loop from its test i < total with i = k: the notification and the
\* share-list request of workspace k, or the return of the records.
Iterate(k, list, records, log, ev) ==
    /\ i' = k
    /\ IF k < Len(list)
       THEN LET workspace == WorkspaceAt(list, k)
            IN  /\ progress' = Notify(log, MsgAnalyzing(k, Len(list), workspace.name))
                /\ events' = Announced(ev, MsgAnalyzing(k, Len(list), workspace.name),
                                       workspace.id)
                /\ shareReqs' = Append(shareReqs, workspace.id)
                /\ CallFetch(SharesUrl(workspace.id))
                /\ pc' = "detail"
                /\ outcome' = None
       ELSE /\ progress' = log
            /\ events' = ev
            /\ shareReqs' = shareReqs
            /\ FetchIdle
            /\ pc' = "done"
            /\ outcome' = Return(records)

\* listAllWorkspaces returns allWorkspaces
ListReturns ==
    /\ pc' = "listed"
    /\ FetchIdle
    /\ UNCHANGED <<workspaces, details, i, outcome, progress, shareReqs,
                   sharesGot, events>>

\* a listing that swallows the error and returns the pages it has
FailsPartial(e) ==
    /\ pc' = "listed"
    /\ outcome' = outcome
    /\ UNCHANGED <<fetchState, url, useFallback, hops, settled>>

\* listAllWorkspaces throws e and, with it, processAllWorkspaces, which awaits
\* it outside any try block
Fails(e) ==
    /\ pc' = "failed"
    /\ outcome' = Throw(e)
    /\ UNCHANGED <<fetchState, url, useFallback, hops, settled>>

\* a loop test that stops one page early
ContinueBelow(page, total) == page < total

\* the test of the do ... while loop
Continue(page, total) == page <= total

\* processAllWorkspaces(apiKey, onProgress) is called: the first notification,
\* then listAllWorkspaces up to the request of page 1
Invoke ==
    /\ pc = "idle"
    /\ pc' = "listing"
    /\ progress' = Notify(progress, MsgConnecting)
    /\ events' = NotifyEvent(events, MsgConnecting)
    /\ allWorkspaces' = <<>>
    /\ currentPage' = 1
    /\ totalPages' = 1
    /\ pageReqs' = <<1>>
    /\ CallFetch(WorkspacesUrl(1))
    /\ UNCHANGED <<app, inFlight>>
    /\ UNCHANGED <<apiKey, onProgress, workspaces, details, i, outcome,
                   served, shareReqs, sharesGot>>

\* listAllWorkspaces resumes with what the page request settled with
ListResume ==
    /\ pc = "listing"
    /\ fetchState = "settled"
    /\ UNCHANGED <<app, inFlight>>
    /\ UNCHANGED <<apiKey, onProgress>>
    /\ IF settled.kind = "throw"
       THEN /\ Fails(settled.error)
            /\ UNCHANGED <<allWorkspaces, currentPage, totalPages, workspaces,
                           details, i, progress, pageReqs, served, shareReqs,
                           sharesGot, events>>
       ELSE LET response == settled.value
            IN  IF response # JsonNull /\ "data" \in DOMAIN response
                THEN IF ~IsArray(response.data)
                     THEN /\ Fails(MsgNotIterable)
                          /\ UNCHANGED <<allWorkspaces, currentPage, totalPages,
                                         workspaces, details, i, progress,
                                         pageReqs, served, shareReqs, sharesGot,
                                         events>>
                     ELSE /\ allWorkspaces' = allWorkspaces \o response.data.array
                          /\ totalPages' = IF response.totalPages = 0 THEN 1
                                           ELSE response.totalPages
                          /\ served' = Append(served, response)
                          /\ currentPage' = currentPage + 1
                          /\ IF Continue(currentPage', totalPages')
                             THEN /\ pageReqs' = Append(pageReqs, currentPage')
                                  /\ CallFetch(WorkspacesUrl(currentPage'))
                                  /\ UNCHANGED <<pc, workspaces, details, i,
                                                 outcome, progress, shareReqs,
                                                 sharesGot, events>>
                             ELSE /\ pageReqs' = pageReqs
                                  /\ ListReturns
                ELSE /\ ListReturns
                     /\ UNCHANGED <<allWorkspaces, currentPage, totalPages,
                                    pageReqs, served>>

\* an empty listing reported as an error
EmptyAuditThrows == Throw(<<"No", "workspaces", "found.">>)

\* if (total === 0) return []
EmptyAudit == Return(<<>>)

\* processAllWorkspaces resumes with the listing: no workspace and it
\* returns, else the notification and the first iteration of the loop
AfterListing ==
    /\ pc = "listed"
    /\ workspaces' = allWorkspaces
    /\ details' = <<>>
    /\ sharesGot' = <<>>
    /\ IF Len(allWorkspaces) = 0
       THEN /\ pc' = "done"
            /\ outcome' = EmptyAudit
            /\ FetchIdle
            /\ UNCHANGED <<i, progress, shareReqs, events>>
       ELSE Iterate(0, allWorkspaces, <<>>,
                    Notify(progress, MsgDiscovered(Len(allWorkspaces))),
                    NotifyEvent(events, MsgDiscovered(Len(allWorkspaces))))
    /\ allWorkspaces' = <<>>
    /\ currentPage' = 1
    /\ totalPages' = 1
    /\ pageReqs' = <<>>
    /\ served' = <<>>
    /\ UNCHANGED <<app, inFlight>>
    /\ UNCHANGED <<apiKey, onProgress>>

\* in sharesGot: getWorkspaceShares threw
Threw == [threw |-> TRUE]

\* the try block of the loop body up to details.push: the record, or the
\* error thrown by getWorkspaceShares or by the loop over a value that is
\* no array
TryShares(workspace, shares) ==
    IF shares.kind = "throw" THEN shares
    ELSE IF ~IsArray(shares.value) THEN Throw(MsgNotIterable)
    ELSE Return(Reduced(workspace, shares.value.array))

\* a catch clause that rethrows what is no error of smartsheetFetch
CaughtFetchOnly(err) == err # MsgNotIterable /\ err # MsgNullProperty

\* catch (err): the errors the catch clause handles, which is all of them
Caught(err) == TRUE

\* a catch block that only logs
CatchSkips(records, workspace) == records

\* a catch block that puts its record first (unshift for push)
CatchUnshift(records, workspace) == <<Restricted(workspace)>> \o records

\* the catch block: the records with the one it pushes
Catch(records, workspace) == Append(records, Restricted(workspace))

\* processAllWorkspaces resumes with what the share-list request of workspace
\* i settled with: the record of the workspace, then the pause or, from the
\* catch block, the next iteration
SharesResume ==
    /\ pc = "detail"
    /\ fetchState = "settled"
    /\ LET workspace == WorkspaceAt(workspaces, i)
           shares == GetWorkspaceShares(settled)
           tried == TryShares(workspace, shares)
           ended == Append(events, Finished(workspace.id))
       IN  /\ sharesGot' = Append(sharesGot,
                  IF shares.kind = "throw" THEN Threw ELSE shares.value)
           /\ IF tried.kind = "return"
              THEN /\ details' = Append(details, tried.value)
                   /\ pc' = "pause"
                   /\ events' = ended
                   /\ FetchIdle
                   /\ UNCHANGED <<i, outcome, progress, shareReqs>>
              ELSE IF Caught(tried.error)
              THEN /\ details' = Catch(details, workspace)
                   /\ Iterate(i + 1, workspaces, details', progress, ended)
              ELSE /\ pc' = "failed"
                   /\ outcome' = tried
                   /\ events' = ended
                   /\ FetchIdle
                   /\ UNCHANGED <<details, i, progress, shareReqs>>
    /\ UNCHANGED <<app, inFlight>>
    /\ UNCHANGED <<apiKey, onProgress, allWorkspaces, currentPage, totalPages,
                   workspaces, pageReqs, served>>

\* the 200 ms timer fires: i++ and the next iteration
PauseElapsed ==
    /\ pc = "pause"
    /\ Iterate(i + 1, workspaces, details, progress, events)
    /\ UNCHANGED <<app, inFlight>>
    /\ UNCHANGED <<apiKey, onProgress, allWorkspaces, currentPage, totalPages,
                   workspaces, details, pageReqs, served, sharesGot>>

-----------------------------------------------------------------------------
(* The App component *)

null == [type |-> "null"]

\* String.prototype.trim on a text kept as a sequence of tokens, " " being a
\* run of white space
RECURSIVE TrimStart(_)
TrimStart(s) ==
    IF s # <<>> /\ Head(s) = " " THEN TrimStart(Tail(s)) ELSE s

RECURSIVE TrimEnd(_)
TrimEnd(s) ==
    IF s # <<>> /\ s[Len(s)] = " " THEN TrimEnd(SubSeq(s, 1, Len(s) - 1)) ELSE s

Trim(s) == TrimEnd(TrimStart(s))

MsgKeyRequired ==
    <<"Smartsheet", "API", "Key", "is", "required", "to", "begin", "the",
      "audit.">>

MsgInitializing == <<"Initializing", "Audit...">>

MsgNoWorkspaces ==
    <<"No", "workspaces", "were", "found", "for", "this", "account.">>

\* the columns FilterControls offers a filter for, and those WorkspaceTable
\* offers a sort on
FilterColumns == { "workspaceName", "owner", "members" }
SortKeys == { "workspaceName", "owner", "members", "permissions" }

\* filters = {}: no column has a value
NoFilters == [column \in FilterColumns |-> undefined]

\* the useState initial values
InitialState ==
    [apiKey |-> <<>>,
     workspaceDetails |-> <<>>,
     isLoading |-> FALSE,
     loadingMessage |-> <<>>,
     error |-> null,
     filters |-> NoFilters,
     sortConfig |-> null]

\* !apiKey || apiKey.trim() === ''
KeyRequired(key) == key = <<>> \/ Trim(key) = <<>>

\* a trigger button that is never disabled
DisabledNever(loading) == FALSE

\* the trigger button's disabled={isLoading}
Disabled(loading) == loading

\* the table, the filter inputs and the column headers are rendered
TableShown(state) == ~state.isLoading /\ Len(state.workspaceDetails) > 0

\* the observer handed to processAllWorkspaces: setLoadingMessage(msg)
OnProgress(state, msg) == [state EXCEPT !.loadingMessage = msg]

\* handleFetchData from the guard's end to the call of processAllWorkspaces
Started(state) ==
    [state EXCEPT !.isLoading = TRUE,
                  !.loadingMessage = MsgInitializing,
                  !.error = null,
                  !.workspaceDetails = <<>>,
                  !.filters = NoFilters,
                  !.sortConfig = null]

\* handleFetchData's guard: the error is set and nothing else
Rejected(state) == [state EXCEPT !.error = JsString(MsgKeyRequired)]

\* the rest of the try block, the catch block and the finally block, from
\* what processAllWorkspaces settled with
Resumed(state, result) ==
    LET tried == IF result.kind = "throw"
                 THEN [state EXCEPT !.error = JsString(result.error)]
                 ELSE IF Len(result.value) = 0
                 THEN [state EXCEPT !.error = JsString(MsgNoWorkspaces)]
                 ELSE [state EXCEPT !.workspaceDetails = result.value]
    IN  [tried EXCEPT !.isLoading = FALSE, !.loadingMessage = <<>>]

\* a toggle that looks at the direction only
DirectionAnyKey(config, key) ==
    IF config # null /\ config.direction = "ascending"
    THEN "descending" ELSE "ascending"

\* requestSort's direction
Direction(config, key) ==
    IF config # null /\ config.key = key /\ config.direction = "ascending"
    THEN "descending" ELSE "ascending"

\* the records processAllWorkspaces returns for a listing: one per workspace,
\* in order, reduced from a share list or the restricted one
AuditRecords(list) ==
    { records \in [1..Len(list) ->
                      UNION { { Reduced(list[k], shares) : shares \in ShareLists }
                              \cup { Restricted(list[k]) } : k \in 1..Len(list) }] :
        \A k \in 1..Len(list) : records[k].workspaceName = list[k].name }

\* the errors a failed listing ends processAllWorkspaces with
ListingErrors == { MsgUnauthorized, MsgForbidden, MsgProxyUnreachable }

\* what processAllWorkspaces(key, observer) settles with
RunResults(key) ==
    IF key = <<>> THEN { Throw(MsgKeyMissing) }
    ELSE { Return(records) : records \in UNION { AuditRecords(list) : list \in PageDatas } }
         \cup { Throw(e) : e \in ListingErrors }

\* what the observer is told after the first message
ProgressMessages ==
    UNION { { MsgDiscovered(Len(list)) }
            \cup { MsgAnalyzing(k, Len(list), WorkspaceAt(list, k).name) :
                       k \in 0..(Len(list) - 1) } :
            list \in PageDatas \ { <<>> } }

\* what the user may type into the token field
TokenTexts == { <<>>, <<" ">>, <<"abc123">>, <<" ", "abc123", " ">> }

\* what the user may type into a filter field
FilterTexts == { <<>>, <<"alpha">> }

\* the tokens a caller passes: none, the empty one, a usable one
ApiKeys == { undefined, JsString(<<>>), JsString(<<"abc123">>) }

Init ==
    /\ apiKey \in ApiKeys
    /\ onProgress \in BOOLEAN
    /\ pc = "idle"
    /\ allWorkspaces = <<>>
    /\ currentPage = 1
    /\ totalPages = 1
    /\ workspaces = <<>>
    /\ details = <<>>
    /\ i = 0
    /\ outcome = None
    /\ fetchState = "none"
    /\ url = None
    /\ useFallback = FALSE
    /\ hops = <<>>
    /\ settled = None
    /\ progress = <<>>
    /\ pageReqs = <<>>
    /\ served = <<>>
    /\ shareReqs = <<>>
    /\ sharesGot = <<>>
    /\ events = <<>>
    /\ app = InitialState
    /\ inFlight = <<>>

Next ==
    \/ Invoke
    \/ FetchAnswer
    \/ ListResume
    \/ AfterListing
    \/ SharesResume
    \/ PauseElapsed

Spec == Init /\ [][Next]_vars

-----------------------------------------------------------------------------
(* The run against a collection that grows while it is listed *)

\* page p of the listing answered with no workspace and totalPages = p + 1
GrowingPage(u) ==
    IF u.resource = "workspaces"
    THEN { [t |-> "ok", json |-> [data |-> Arr(<<>>), totalPages |-> u.page + 1]] }
    ELSE {}

\* the network answers the GET in flight, as in FetchAnswer or with a page
\* that reports one page more; the pages up to MaxPages are answered
FetchGrowing ==
    /\ url # None
    /\ url.resource = "workspaces" => url.page <= MaxPages
    /\ FetchAnswerOf(Answers(url, Len(allWorkspaces)) \cup GrowingPage(url))

NextPaging ==
    \/ Invoke
    \/ FetchGrowing
    \/ ListResume
    \/ AfterListing
    \/ SharesResume
    \/ PauseElapsed

SpecPaging == Init /\ [][NextPaging]_vars

-----------------------------------------------------------------------------
(* The loop body on the share lists of the Share type *)

\* Share: email and name are optional; a proxy or the API may also send them
\* empty
ShareEmails == { <<>>, <<"a@x.com">>, <<"b@x.com">> }
ShareNames == { <<>>, <<"Bob">> }
AccessLevels == { "OWNER", "EDITOR", "VIEWER" }

ShareEntries ==
    { [id |-> "s", type |-> "USER", accessLevel |-> l] : l \in AccessLevels }
    \cup { [id |-> "s", type |-> "USER", accessLevel |-> l, email |-> e] :
             l \in AccessLevels, e \in ShareEmails }
    \cup { [id |-> "s", type |-> "USER", accessLevel |-> l, name |-> n] :
             l \in AccessLevels, n \in ShareNames }
    \cup { [id |-> "s", type |-> "USER", accessLevel |-> l, email |-> e, name |-> n] :
             l \in AccessLevels, e \in ShareEmails, n \in ShareNames }

\* the share lists of at most MaxShares entries
ShareSeqs == UNION { [1..n -> ShareEntries] : n \in 0..MaxShares }

\* the answers to the share-list request in SpecReduce: 2xx with a share
\* list, or 403
ReduceAnswers ==
    { [t |-> "ok", json |-> [data |-> Arr(shares)]] : shares \in ShareSeqs }
    \cup { [t |-> "status", status |-> 403, readable |-> TRUE, text |-> <<>>] }

\* processAllWorkspaces('abc123') at its await of getWorkspaceShares for the
\* one workspace of the listing, Alpha, whose request the primary proxy has
\* answered
InitReduce ==
    \E answer \in ReduceAnswers :
        /\ apiKey = JsString(<<"abc123">>)
        /\ onProgress = FALSE
        /\ pc = "detail"
        /\ allWorkspaces = <<>>
        /\ currentPage = 1
        /\ totalPages = 1
        /\ workspaces = <<Alpha>>
        /\ details = <<>>
        /\ i = 0
        /\ outcome = None
        /\ fetchState = "settled"
        /\ url = SharesUrl(Alpha.id)
        /\ useFallback = FALSE
        /\ hops = << [proxy |-> PRIMARY_PROXY, url |-> SharesUrl(Alpha.id),
                      answer |-> answer] >>
        /\ settled = HandleAnswer(FALSE, answer)
        /\ progress = <<>>
        /\ pageReqs = <<>>
        /\ served = <<>>
        /\ shareReqs = <<Alpha.id>>
        /\ sharesGot = <<>>
        /\ events = <<Requested(Alpha.id)>>
        /\ app = InitialState
        /\ inFlight = <<>>

NextReduce ==
    \/ SharesResume
    \/ PauseElapsed

SpecReduce == InitReduce /\ [][NextReduce]_vars

-----------------------------------------------------------------------------
(* The App and what the user does with it; processAllWorkspaces is there by
   what it tells its observer and what it settles with *)

serviceVars ==
    <<apiKey, onProgress, pc, allWorkspaces, currentPage, totalPages,
      workspaces, details, i, outcome, fetchState, url, useFallback, hops,
      settled, progress, pageReqs, served, shareReqs, sharesGot, events>>

\* the user edits the token field
SetApiKey ==
    /\ \E value \in TokenTexts :
           /\ value # app.apiKey
           /\ app' = [app EXCEPT !.apiKey = value]
    /\ UNCHANGED <<inFlight, serviceVars>>

\* a click on the trigger button: handleFetchData up to its return at the
\* guard or to its await, processAllWorkspaces having run to its first await
\* and told the observer that it connects
HandleFetchData ==
    /\ ~Disabled(app.isLoading)
    /\ IF KeyRequired(app.apiKey)
       THEN /\ app' = Rejected(app)
            /\ UNCHANGED inFlight
       ELSE /\ app' = OnProgress(Started(app), MsgConnecting)
            /\ inFlight' = Append(inFlight, [apiKey |-> Trim(app.apiKey)])
    /\ UNCHANGED serviceVars

\* processAllWorkspaces calls the observer
Progress ==
    /\ inFlight # <<>>
    /\ \E msg \in ProgressMessages : app' = OnProgress(app, msg)
    /\ UNCHANGED <<inFlight, serviceVars>>

\* a call of processAllWorkspaces settles and handleFetchData goes on to its
\* end
HandleFetchResume ==
    /\ inFlight # <<>>
    /\ \E result \in RunResults(Head(inFlight).apiKey) :
           app' = Resumed(app, result)
    /\ inFlight' = Tail(inFlight)
    /\ UNCHANGED serviceVars

\* the user edits a filter field: handleFilterChange
HandleFilterChange ==
    /\ TableShown(app)
    /\ \E column \in FilterColumns, value \in FilterTexts :
           /\ app.filters[column] # JsString(value)
           /\ app' = [app EXCEPT !.filters[column] = JsString(value)]
    /\ UNCHANGED <<inFlight, serviceVars>>

\* a click on a column header: requestSort
RequestSort ==
    /\ TableShown(app)
    /\ \E key \in SortKeys :
           app' = [app EXCEPT !.sortConfig =
                       [key |-> key, direction |-> Direction(app.sortConfig, key)]]
    /\ UNCHANGED <<inFlight, serviceVars>>

\* the App as mounted, no call of processAllWorkspaces made yet
InitApp ==
    /\ Init
    /\ apiKey = undefined
    /\ onProgress = FALSE

NextApp ==
    \/ SetApiKey
    \/ HandleFetchData
    \/ Progress
    \/ HandleFetchResume
    \/ HandleFilterChange
    \/ RequestSort

SpecApp == InitApp /\ [][NextApp]_vars

-----------------------------------------------------------------------------
(* The claims *)

\* the smartsheetFetch call has settled
Settled == fetchState = "settled"

\* the answer of the k-th GET of the call is in
Answered(k) == k <= Len(hops) /\ hops[k].answer.t # "pending"

\* C2: with an empty or absent apiKey smartsheetFetch issues no GET through
\* either proxy and its call settles at once with the missing-key error; that
\* error is also how the run ends.
C2_AuthGuard ==
    (apiKey = undefined \/ apiKey = JsString(<<>>)) =>
        /\ hops = <<>>
        /\ fetchState # "inflight"
        /\ pc = "listing" => Settled
        /\ Settled => settled = Throw(MsgKeyMissing)
        /\ pc \in {"idle", "listing", "failed"}
        /\ pc = "failed" => outcome = Throw(MsgKeyMissing)

C2_Witness ==
    /\ apiKey = JsString(<<>>)
    /\ pc = "failed"
    /\ outcome = Throw(MsgKeyMissing)
    /\ hops = <<>>

\* C3: when the GET through the primary proxy fails at transport level and
\* the retry, through the secondary proxy, is answered 2xx with a JSON body,
\* the call has settled with that body as its value and there are two GETs.
C3_FallbackSuccess ==
    ( /\ Answered(2)
      /\ hops[1].answer.t = "transport"
      /\ hops[2].answer.t = "ok"
      /\ hops[2].answer.json # NotJson )
    =>  /\ Len(hops) = 2
        /\ hops[1].proxy = PRIMARY_PROXY
        /\ hops[2].proxy = SECONDARY_PROXY
        /\ hops[2].url = hops[1].url
        /\ Settled
        /\ settled = Return(hops[2].answer.json)

C3_Witness ==
    /\ Settled
    /\ Len(hops) = 2
    /\ hops[1].answer.t = "transport"
    /\ hops[2].answer = [t |-> "ok", json |-> [data |-> Arr(<<Alpha, Beta>>), totalPages |-> 1]]
    /\ settled = Return([data |-> Arr(<<Alpha, Beta>>), totalPages |-> 1])

\* C4: one call of smartsheetFetch issues at most two GETs, for the same url:
\* the first through the primary proxy, the second, if any, through the
\* secondary proxy and with useFallback set; a GET is in flight only while the
\* call is pending, so a settled call issues no further one.
C4_OneFallbackHop ==
    /\ Len(hops) <= 2
    /\ \A k \in 1..Len(hops) :
         /\ hops[k].url = url
         /\ hops[k].proxy = (IF k = 1 THEN PRIMARY_PROXY ELSE SECONDARY_PROXY)
         /\ k < Len(hops) => hops[k].answer.t # "pending"
    /\ useFallback <=> Len(hops) = 2
    /\ (hops # <<>> /\ hops[Len(hops)].answer.t = "pending") <=> fetchState = "inflight"

C4_Witness ==
    /\ Settled
    /\ Len(hops) = 2
    /\ hops[1].answer.t = "transport"
    /\ hops[2].answer = [t |-> "transport", message |-> <<"Failed", "to", "fetch">>]
    /\ settled.kind = "throw"

\* C5: a non-2xx answer of the primary proxy, whatever its status and its
\* body text, settles the call with an error and no GET goes through the
\* secondary proxy.
C5_NoRetryOnStatus ==
    (Answered(1) /\ hops[1].answer.t = "status")
    =>  /\ Len(hops) = 1
        /\ Settled
        /\ settled.kind = "throw"

\* C6: when the GET through the primary proxy and the GET through the
\* secondary proxy fail at transport level in the same way, the call settles
\* with the proxy-unreachable error.
C6_ProxyUnreachable ==
    ( /\ Settled
      /\ Len(hops) = 2
      /\ hops[1].answer.t = "transport"
      /\ hops[2].answer = hops[1].answer )
    =>  settled = Throw(MsgProxyUnreachable)

\* C7: a 2xx answer whose JSON body carries an errorCode field settles the
\* call with an error, never with that body as its value.
C7_EmbeddedError ==
    ( /\ Settled
      /\ hops # <<>>
      /\ hops[Len(hops)].answer.t = "ok"
      /\ "errorCode" \in DOMAIN hops[Len(hops)].answer.json )
    =>  settled.kind = "throw"

\* the data arrays of the pages, one after the other
RECURSIVE Flatten(_)
Flatten(pages) ==
    IF pages = <<>> THEN <<>>
    ELSE Head(pages).data.array \o Flatten(Tail(pages))

\* no workspace twice
NoDuplicates(list) ==
    \A a, b \in 1..Len(list) : list[a] = list[b] => a = b

\* C8: when listAllWorkspaces has returned and every page it asked for was
\* served with a data array and the same totalPages value N >= 1, it asked
\* for the pages 1..N, once each and in that order, and it returns the data
\* arrays concatenated in page order: as many workspaces as the pages hold,
\* and none twice when the pages hold none twice.
C8_PaginationComplete ==
    \A n \in 1..(MaxTotalPages + 1) :
        ( /\ pc = "listed"
          /\ Len(served) = Len(pageReqs)
          /\ \A k \in 1..Len(served) : served[k].totalPages = n )
        =>  /\ pageReqs = [k \in 1..n |-> k]
            /\ allWorkspaces = Flatten(served)
            /\ NoDuplicates(Flatten(served)) => NoDuplicates(allWorkspaces)

C8_Witness ==
    /\ pc = "listed"
    /\ pageReqs = <<1, 2>>
    /\ served = << [data |-> Arr(<<Alpha, Beta>>), totalPages |-> 2],
                   [data |-> Arr(<<Gamma>>), totalPages |-> 2] >>
    /\ allWorkspaces = <<Alpha, Beta, Gamma>>

\* what C9 asks of one step
C9_Step ==
    /\ (pc = "listing" /\ Settled /\ settled.kind = "throw")
         => /\ pc' = "failed"
            /\ outcome' = settled
            /\ details' = <<>>
            /\ shareReqs' = <<>>
            /\ hops' = hops
    /\ pc = "failed" => UNCHANGED vars

\* C9: when a page request of the listing settles with an error, whether of
\* page 1 or of a later page, the next step of the run is its failure with
\* that error: no records, no share-list request, no further GET; and a
\* failed run does nothing more.
C9_ListingErrorsFatal == [][C9_Step]_vars

C9_Witness ==
    /\ pc = "failed"
    /\ currentPage = 2
    /\ allWorkspaces = <<Alpha, Beta>>
    /\ outcome = Throw(MsgRateLimit)
    /\ details = <<>>
    /\ shareReqs = <<>>

\* what C10 asks of one step
C10_Step ==
    pc \in {"listed", "detail", "pause"}
    => /\ pc' # "failed"
       /\ pc' = "done"
            => /\ outcome' = Return(details')
               /\ Len(details') = Len(workspaces')

\* C10: once listAllWorkspaces has returned, no step of the run is a failure,
\* whether a share-list fetch fails or a share list is malformed, and the
\* step that ends the run returns the records, one per workspace of the
\* listing.
C10_NoFailureAfterListing == [][C10_Step]_vars

C10_Witness ==
    /\ pc = "done"
    /\ Len(workspaces) = 3
    /\ outcome = Return(details)
    /\ \E a, b \in 1..Len(sharesGot) :
         sharesGot[a] = Threw /\ sharesGot[b] = NotIterable

\* the record of a workspace carries the restricted-access values
IsRestricted(record) ==
    /\ record.owner = <<"Restricted", "Access">>
    /\ record.members = <<"Check", "your", "API", "token", "permissions">>
    /\ record.permissions = <<"N/A">>

\* C1: there is one record per workspace processed, in listing order; the
\* record of a workspace whose share-list fetch threw carries the
\* restricted-access values, the record of a workspace whose share list came
\* is the reduction of that list and does not carry them; the share lists are
\* requested in listing order whatever the earlier ones gave, and the run
\* ends with as many records as workspaces.
C1_ErrorIsolation ==
    /\ Len(details) = Len(sharesGot)
    /\ Len(details) <= Len(workspaces)
    /\ \A k \in 1..Len(details) :
         /\ details[k].workspaceName = workspaces[k].name
         /\ sharesGot[k] = Threw => IsRestricted(details[k])
         /\ IsArray(sharesGot[k])
              => /\ details[k] = Reduced(workspaces[k], sharesGot[k].array)
                 /\ ~IsRestricted(details[k])
    /\ pc \in {"detail", "pause", "done"}
         => /\ Len(shareReqs) = (IF pc = "detail" THEN Len(details) + 1 ELSE Len(details))
            /\ \A k \in 1..Len(shareReqs) : shareReqs[k] = workspaces[k].id
    /\ (pc = "done" /\ workspaces # <<>>)
         => /\ Len(details) = Len(workspaces)
            /\ outcome = Return(details)
            /\ Cardinality({k \in 1..Len(details) : IsRestricted(details[k])})
                 = Cardinality({k \in 1..Len(details) : ~IsArray(sharesGot[k])})

C1_Witness ==
    /\ pc = "done"
    /\ workspaces = <<Alpha, Beta, Gamma>>
    /\ sharesGot = <<Threw, Arr(<<ShareOwner, ShareEditor>>), Threw>>
    /\ IsRestricted(details[1])
    /\ details[2].owner = <<"a@x.com">>
    /\ IsRestricted(details[3])

\* C11: the sequence processAllWorkspaces returns has one record per listed
\* workspace, and the workspaceName of the k-th record is the name of the
\* k-th listed workspace, whatever the share-list fetches gave.
C11_OutputOrder ==
    pc = "done" =>
        /\ outcome.kind = "return"
        /\ Len(outcome.value) = Len(workspaces)
        /\ \A k \in 1..Len(workspaces) :
             outcome.value[k].workspaceName = workspaces[k].name

C11_Witness ==
    /\ pc = "done"
    /\ workspaces = <<Gamma, Alpha, Beta>>
    /\ sharesGot[1] # Threw
    /\ sharesGot[2] = Threw
    /\ sharesGot[3] # Threw
    /\ outcome.value[1].workspaceName = <<"Gamma">>
    /\ outcome.value[2].workspaceName = <<"Alpha">>
    /\ outcome.value[3].workspaceName = <<"Beta">>

\* C12: when the listing returns no workspace, the run ends with the empty
\* sequence as its value, not with an error; no share list was requested and
\* no notification that starts with 'Analyzing' was delivered.
C12_ZeroWorkspaces ==
    (pc = "done" /\ workspaces = <<>>) =>
        /\ outcome = Return(<<>>)
        /\ shareReqs = <<>>
        /\ \A k \in 1..Len(events) : events[k].e = "notify"
        /\ \A k \in 1..Len(progress) : Head(progress[k]) # "Analyzing"

C12_Witness ==
    /\ pc = "done"
    /\ onProgress
    /\ workspaces = <<>>
    /\ outcome = Return(<<>>)
    /\ progress = <<MsgConnecting>>
    /\ shareReqs = <<>>

\* the calls of getWorkspaceShares and their ends, in program order
Wire(ev) == SelectSeq(ev, LAMBDA x : x.e # "notify")

\* request 1, end 1, request 2, end 2, ..., in listing order
Sequential ==
    \A k \in 1..Len(Wire(events)) :
        Wire(events)[k] = IF k % 2 = 1
                          THEN Requested(workspaces[(k + 1) \div 2].id)
                          ELSE Finished(workspaces[k \div 2].id)

\* what C13 asks of one step
C13_Step ==
    /\ Cardinality({k \in 1..Len(hops') : hops'[k].answer = Pending}) <= 1
    /\ (fetchState' = "inflight" /\ hops' # hops /\ fetchState = "inflight")
         => /\ Len(hops') = Len(hops) + 1
            /\ hops'[Len(hops)].answer # Pending
    /\ shareReqs' # shareReqs
         => /\ fetchState # "inflight"
            /\ Len(sharesGot') = Len(shareReqs)
            /\ shareReqs' = Append(shareReqs, workspaces'[Len(shareReqs) + 1].id)
    /\ Sequential'

\* C13: at most one GET is on the wire: a step puts one there only when none
\* is, or when it is itself the answer to the one that was (the fallback
\* hop); a share list is requested only when every share list requested
\* before has come or failed, and the requests go in listing order.
C13_SequentialFetches == [][C13_Step]_vars

C13_Witness ==
    /\ pc = "done"
    /\ Len(workspaces) = 3
    /\ Wire(events) = << Requested(workspaces[1].id), Finished(workspaces[1].id),
                         Requested(workspaces[2].id), Finished(workspaces[2].id),
                         Requested(workspaces[3].id), Finished(workspaces[3].id) >>
    /\ sharesGot[1] = Threw
    /\ sharesGot[2] # Threw

\* what C14 asks of one step
C14_Step ==
    (shareReqs' # shareReqs /\ shareReqs # <<>>) => pc = "pause"

\* C14: a share list other than the first is requested only by the step that
\* ends a pause: between the end of the request of workspace k and the
\* request of workspace k+1 the run pauses, whether the request of workspace
\* k succeeded or failed.
C14_PacingAfterEveryRequest == [][C14_Step]_vars

\* the entries of events of the loop: 'Analyzing' notifications, requests, ends
Detail(ev) == SelectSeq(ev, LAMBDA x : x.e # "notify" \/ Head(x.msg) = "Analyzing")

\* C15: with an observer, the loop does, in this order and for the workspaces
\* in listing order: the notification 'Analyzing k of N: name' of workspace
\* k, the share-list request of workspace k, the end of that request, the
\* notification of workspace k+1, and so on.
C15_ProgressBeforeRequest ==
    onProgress =>
        \A k \in 1..Len(Detail(events)) :
            LET w == (k + 2) \div 3
            IN  Detail(events)[k] =
                    CASE k % 3 = 1 ->
                           Notified(<<"Analyzing", ToString(w), "of",
                                      ToString(Len(workspaces)), ":">>
                                    \o workspaces[w].name)
                      [] k % 3 = 2 -> Requested(workspaces[w].id)
                      [] OTHER -> Finished(workspaces[w].id)

C15_Witness ==
    /\ onProgress
    /\ pc = "done"
    /\ sharesGot = <<Threw, Arr(<<ShareViewer>>)>>
    /\ events = << Notified(<<"Connecting", "to", "Smartsheet", "API...">>),
                   Notified(<<"Discovered", "2", "workspaces.", "Auditing",
                              "permissions...">>),
                   Notified(<<"Analyzing", "1", "of", "2", ":", "Alpha">>),
                   Requested(1), Finished(1),
                   Notified(<<"Analyzing", "2", "of", "2", ":", "Beta">>),
                   Requested(2), Finished(2) >>

\* C16: with an observer, when the listing has returned the observer has been
\* called once for the start of the listing and once for each page
\* retrieved.
C16_ObserverCheckpoints ==
    (onProgress /\ pc = "listed") =>
        /\ progress # <<>>
        /\ progress[1] = MsgConnecting
        /\ Len(progress) = 1 + Len(served)

\* the share has an email, and it is not the empty string
HasEmail(share) == "email" \in DOMAIN share /\ share.email # <<>>

\* the share has a name, and it is not the empty string
HasName(share) == "name" \in DOMAIN share /\ share.name # <<>>

\* C17: in the record of a workspace whose share list came, owner is 'N/A'
\* when the list has no OWNER entry; when it has exactly one, owner is that
\* entry's email if it has one, and that entry's name if it has no email but
\* a name.
C17_OwnerResolution ==
    \A k \in 1..Len(details) :
        IsArray(sharesGot[k]) =>
            LET shares == sharesGot[k].array
                owners == {j \in 1..Len(shares) : shares[j].accessLevel = "OWNER"}
            IN  /\ owners = {} => details[k].owner = <<"N/A">>
                /\ \A j \in owners :
                     owners = {j} =>
                        /\ HasEmail(shares[j]) => details[k].owner = shares[j].email
                        /\ (~HasEmail(shares[j]) /\ HasName(shares[j]))
                             => details[k].owner = shares[j].name

C17_Witness ==
    /\ pc = "done"
    /\ sharesGot = << Arr(<< [id |-> "s", type |-> "USER", accessLevel |-> "EDITOR",
                              email |-> <<"a@x.com">>],
                             [id |-> "s", type |-> "USER", accessLevel |-> "OWNER",
                              name |-> <<"Bob">>] >>) >>
    /\ details[1].owner = <<"Bob">>

\* String.prototype.split: the parts of s between the separator words
RECURSIVE Split(_, _)
Split(s, sep) ==
    IF \A k \in 1..Len(s) : s[k] # sep THEN <<s>>
    ELSE LET at == CHOOSE k \in 1..Len(s) :
                       s[k] = sep /\ \A j \in 1..(k - 1) : s[j] # sep
         IN  <<SubSeq(s, 1, at - 1)>> \o Split(SubSeq(s, at + 1, Len(s)), sep)

\* C18: in the record of a workspace whose share list came with entries
\* other than OWNER ones, members and permissions have as many lines as
\* there are such entries, and line j of permissions is the access level,
\* line j of members the identity, of the j-th of them.
C18_MemberPermissionParallel ==
    \A k \in 1..Len(details) :
        IsArray(sharesGot[k]) =>
            LET others == SelectSeq(sharesGot[k].array,
                                    LAMBDA share : share.accessLevel # "OWNER")
                members == Split(details[k].members, "\n")
                permissions == Split(details[k].permissions, "\n")
            IN  others # <<>> =>
                    /\ Len(members) = Len(permissions)
                    /\ Len(members) = Len(others)
                    /\ \A j \in 1..Len(others) :
                         /\ permissions[j] = <<others[j].accessLevel>>
                         /\ members[j] = Identity(others[j])

C18_Witness ==
    /\ pc = "done"
    /\ sharesGot = << Arr(<< [id |-> "s", type |-> "USER", accessLevel |-> "VIEWER",
                              email |-> <<"b@x.com">>, name |-> <<"Bob">>],
                             [id |-> "s", type |-> "USER", accessLevel |-> "EDITOR",
                              name |-> <<"Bob">>] >>) >>
    /\ details[1].members = <<"b@x.com", "\n", "Bob">>
    /\ details[1].permissions = <<"VIEWER", "\n", "EDITOR">>

\* the scenario of C19 at the point where the share-list request of Beta has
\* settled: token 'abc123', the listing Alpha, Beta, the share list of Alpha
\* an OWNER with email a@x.com and an EDITOR with name Bob, the request of
\* Beta answered 403
C19_Scenario ==
    /\ apiKey = JsString(<<"abc123">>)
    /\ pc = "detail"
    /\ workspaces = << [id |-> 1, name |-> <<"Alpha">>], [id |-> 2, name |-> <<"Beta">>] >>
    /\ i = 1
    /\ sharesGot = << Arr(<< [id |-> "s1", type |-> "USER", email |-> <<"a@x.com">>,
                              accessLevel |-> "OWNER"],
                             [id |-> "s2", type |-> "USER", name |-> <<"Bob">>,
                              accessLevel |-> "EDITOR"] >>) >>
    /\ Settled
    /\ hops[Len(hops)].answer.t = "status"
    /\ hops[Len(hops)].answer.status = 403

\* the record of Alpha in the scenario of C19
C19_Alpha ==
    [workspaceName |-> <<"Alpha">>, owner |-> <<"a@x.com">>,
     members |-> <<"Bob">>, permissions |-> <<"EDITOR">>]

\* what C19 asks of one step, with the texts the claim gives
C19_StepAsClaimed ==
    C19_Scenario =>
        /\ pc' = "done"
        /\ outcome' = Return(<< C19_Alpha,
                                [workspaceName |-> <<"Beta">>,
                                 owner |-> <<"Restricted", "access">>,
                                 members |-> <<"Could", "not", "fetch", "list">>,
                                 permissions |-> <<"N/A">>] >>)

\* C19 as claimed: in the scenario the run returns the record of Alpha and,
\* for Beta, the record with owner 'Restricted access', members 'Could not
\* fetch list', permissions 'N/A'.
C19_EndToEndAsClaimed == [][C19_StepAsClaimed]_vars

\* what C19 asks of one step, with the texts of the catch block
C19_Step ==
    C19_Scenario =>
        /\ pc' = "done"
        /\ outcome' = Return(<< C19_Alpha,
                                [workspaceName |-> <<"Beta">>,
                                 owner |-> <<"Restricted", "Access">>,
                                 members |-> <<"Check", "your", "API", "token",
                                               "permissions">>,
                                 permissions |-> <<"N/A">>] >>)

\* C19: in the scenario the run returns exactly two records, in this order:
\* the record of Alpha with owner a@x.com, members Bob, permissions EDITOR,
\* and, for Beta, the record with owner 'Restricted Access', members 'Check
\* your API token permissions', permissions 'N/A'.
C19_EndToEnd == [][C19_Step]_vars

C19_Witness ==
    /\ apiKey = JsString(<<"abc123">>)
    /\ pc = "done"
    /\ workspaces = <<Alpha, Beta>>
    /\ sharesGot = <<Arr(<<ShareOwner, ShareEditor>>), Threw>>
    /\ Len(outcome.value) = 2
    /\ outcome.value[1] = C19_Alpha
    /\ outcome.value[2].workspaceName = <<"Beta">>
    /\ outcome.value[2].owner = <<"Restricted", "Access">>

\* the kind of an error of smartsheetFetch, which its message tells
Kind(message) ==
    IF Head(message) = "Unauthorized" THEN "Unauthorized"
    ELSE IF Head(message) = "Forbidden" THEN "Forbidden"
    ELSE IF SubSeq(message, 1, 2) = <<"Rate", "Limit">> THEN "RateLimited"
    ELSE IF SubSeq(message, 1, 3) = <<"Smartsheet", "API", "Error">> THEN "ApiError"
    ELSE "Other"

\* C20: a call whose last GET was answered with a non-2xx status settles with
\* an error whose kind the status decides: 401 Unauthorized, 403 Forbidden,
\* 429 RateLimited, 404 a kind of its own (none of the others and not the
\* generic one), every other status the generic API error that carries the
\* status; whether the error body could be read changes nothing.
C20_StatusClassification ==
    (Settled /\ hops # <<>> /\ hops[Len(hops)].answer.t = "status") =>
        /\ settled.kind = "throw"
        /\ LET status == hops[Len(hops)].answer.status
               kind == Kind(settled.error)
           IN  /\ status = 401 => kind = "Unauthorized"
               /\ status = 403 => kind = "Forbidden"
               /\ status = 429 => kind = "RateLimited"
               /\ status = 404 => kind \notin {"Unauthorized", "Forbidden",
                                               "RateLimited", "ApiError"}
               /\ status \notin {401, 403, 404, 429}
                    => /\ kind = "ApiError"
                       /\ settled.error[5] = ToString(status)

\* the identity C21 gives a share
Resolved(share) ==
    IF HasEmail(share) THEN share.email
    ELSE IF HasName(share) THEN share.name
    ELSE <<"Unknown", "User">>

\* the entries of a share list that are no OWNER entries, in their order
Others(shares) == SelectSeq(shares, LAMBDA share : share.accessLevel # "OWNER")

\* the places of the OWNER entries in a share list
Owners(shares) == {j \in 1..Len(shares) : shares[j].accessLevel = "OWNER"}

\* C21: the identity under which a share entry shows in the record (a line
\* of members, or owner for the one OWNER entry) is its email when that is
\* not empty, else its name when that is not empty, else 'Unknown User'; it
\* is never the empty string, also when email or name is there but empty.
C21_IdentityResolution ==
    \A k \in 1..Len(details) :
        IsArray(sharesGot[k]) =>
            LET shares == sharesGot[k].array
                members == Split(details[k].members, "\n")
            IN  /\ details[k].owner # <<>>
                /\ \A j \in Owners(shares) :
                     Owners(shares) = {j} => details[k].owner = Resolved(shares[j])
                /\ Others(shares) # <<>> =>
                     /\ Len(members) = Len(Others(shares))
                     /\ \A j \in 1..Len(members) :
                          /\ members[j] # <<>>
                          /\ members[j] = Resolved(Others(shares)[j])

C21_Witness ==
    /\ pc = "done"
    /\ sharesGot = << Arr(<< [id |-> "s", type |-> "USER", accessLevel |-> "EDITOR",
                              email |-> <<>>, name |-> <<"Bob">>],
                             [id |-> "s", type |-> "USER", accessLevel |-> "VIEWER",
                              email |-> <<>>, name |-> <<>>] >>) >>
    /\ details[1].members = <<"Bob", "\n", "Unknown", "User">>

\* C22: two workspaces whose share lists came the same have the same owner,
\* members and permissions in their records, whatever was processed before
\* or between them; and when they are the same workspace, the same record.
C22_ReductionDeterminism ==
    \A a, b \in 1..Len(details) :
        (IsArray(sharesGot[a]) /\ sharesGot[a] = sharesGot[b]) =>
            /\ details[a].owner = details[b].owner
            /\ details[a].members = details[b].members
            /\ details[a].permissions = details[b].permissions
            /\ workspaces[a] = workspaces[b] => details[a] = details[b]

C22_Witness ==
    /\ pc = "done"
    /\ workspaces = <<Gamma, Alpha, Beta>>
    /\ sharesGot = << Arr(<<ShareViewer>>), Arr(<<ShareOwner, ShareEditor>>),
                      Arr(<<ShareViewer>>) >>
    /\ details[1].owner = <<"N/A">>
    /\ details[3].owner = <<"N/A">>
    /\ details[1].members = details[3].members

\* C25: the lines of members of the record of a share list with entries that
\* are no OWNER entries are the identities of exactly those entries, in the
\* order of the share list: none left out, none twice as one, none moved.
C25_MemberOrder ==
    \A k \in 1..Len(details) :
        (IsArray(sharesGot[k]) /\ Others(sharesGot[k].array) # <<>>) =>
            Split(details[k].members, "\n")
                = [j \in 1..Len(Others(sharesGot[k].array)) |->
                       Identity(Others(sharesGot[k].array)[j])]

C25_Witness ==
    /\ pc = "done"
    /\ sharesGot = << Arr(<< [id |-> "s", type |-> "USER", accessLevel |-> "VIEWER",
                              email |-> <<"b@x.com">>],
                             [id |-> "s", type |-> "USER", accessLevel |-> "EDITOR",
                              email |-> <<"b@x.com">>] >>) >>
    /\ details[1].members = <<"b@x.com", "\n", "b@x.com">>

\* C26: in every record members and permissions are not the empty string;
\* the record of a share list without an entry that is no OWNER entry (the
\* empty list too) has members 'Private (No other users)' and permissions
\* 'N/A'.
C26_EmptyMemberSentinel ==
    \A k \in 1..Len(details) :
        /\ details[k].members # <<>>
        /\ details[k].permissions # <<>>
        /\ (IsArray(sharesGot[k]) /\ Others(sharesGot[k].array) = <<>>) =>
             /\ details[k].members = <<"Private", "(No", "other", "users)">>
             /\ details[k].permissions = <<"N/A">>

C26_Witness ==
    /\ pc = "done"
    /\ sharesGot = << Arr(<< [id |-> "s", type |-> "USER", accessLevel |-> "OWNER",
                              email |-> <<"a@x.com">>] >>) >>
    /\ details[1].owner = <<"a@x.com">>
    /\ details[1].members = <<"Private", "(No", "other", "users)">>
    /\ details[1].permissions = <<"N/A">>

\* C27: a share list with two or more OWNER entries gives a reduced record,
\* not a failure; its owner is the identity of the last OWNER entry of the
\* list, and its members has a line for each entry that is no OWNER entry
\* and for no other.
C27_MultipleOwners ==
    \A k \in 1..Len(sharesGot) :
        (IsArray(sharesGot[k]) /\ Cardinality(Owners(sharesGot[k].array)) >= 2) =>
            LET shares == sharesGot[k].array
                last == CHOOSE j \in Owners(shares) : \A o \in Owners(shares) : o <= j
            IN  /\ pc # "failed"
                /\ Len(details) >= k
                /\ ~IsRestricted(details[k])
                /\ details[k].owner = Resolved(shares[last])
                /\ IF Others(shares) = <<>>
                   THEN details[k].members = <<"Private", "(No", "other", "users)">>
                   ELSE Len(Split(details[k].members, "\n")) = Len(Others(shares))

C27_Witness ==
    /\ pc = "done"
    /\ sharesGot = << Arr(<< [id |-> "s", type |-> "USER", accessLevel |-> "OWNER",
                              email |-> <<"a@x.com">>],
                             [id |-> "s", type |-> "USER", accessLevel |-> "OWNER",
                              name |-> <<"Bob">>] >>) >>
    /\ details[1].owner = <<"Bob">>
    /\ details[1].members = <<"Private", "(No", "other", "users)">>

\* what C23 asks of one step
C23_Step ==
    /\ pageReqs' # <<>> => pageReqs'[1] = 1
    /\ (pc = "listing" /\ Settled /\ settled.kind = "return") =>
         LET page == settled.value
             hasArray == /\ page # JsonNull
                         /\ "data" \in DOMAIN page
                         /\ IsArray(page.data)
             asksNext == /\ pc' = "listing"
                         /\ pageReqs' = Append(pageReqs, currentPage + 1)
         IN  /\ asksNext <=> (hasArray /\ currentPage + 1 <= page.totalPages)
             /\ ~hasArray => /\ pc' = "listed"
                             /\ allWorkspaces' = allWorkspaces
             /\ (hasArray /\ ~asksNext)
                  => /\ pc' = "listed"
                     /\ allWorkspaces' = allWorkspaces \o page.data.array

\* C23: the first page asked for is page 1; the step that receives page p
\* asks for page p+1 exactly when page p carries a data array and p+1 is at
\* most the totalPages of page p, the latest; it otherwise ends the listing:
\* a page without a data array ends it at once and without an error, with
\* the workspaces accumulated so far as its value.
C23_PaginationContinuation == [][C23_Step]_vars

\* what C24 asks of one step
C24_Step ==
    (pc = "listing" /\ pc' = "listing" /\ served # <<>> /\ currentPage' = currentPage + 1)
        => totalPages' - currentPage' < totalPages - currentPage

C28_LoadingTracksRun ==
    /\ app.isLoading <=> inFlight # <<>>
    /\ Len(inFlight) <= 1

\* a call made with the token the field held, trimmed, is awaited and tells
\* its progress, the field having been emptied in the meantime
C28_Witness ==
    /\ app.isLoading
    /\ inFlight = << [apiKey |-> <<"abc123">>] >>
    /\ app.apiKey = <<>>
    /\ app.loadingMessage = <<"Analyzing", "1", "of", "1", ":", "Gamma">>

\* C29: the App never holds an error together with records: whatever the user
\* does, error is null or workspaceDetails is empty.
C29_ErrorResultsExclusive ==
    ~(app.error # null /\ Len(app.workspaceDetails) > 0)

\* what C30 asks of one step
C30_Step ==
    (app'.sortConfig # app.sortConfig /\ app'.sortConfig # null) =>
        /\ app'.sortConfig.direction =
               IF /\ app.sortConfig # null
                  /\ app.sortConfig.key = app'.sortConfig.key
                  /\ app.sortConfig.direction = "ascending"
               THEN "descending"
               ELSE "ascending"
        /\ app'.workspaceDetails = app.workspaceDetails
        /\ app'.filters = app.filters

\* C30: a step that sets the sort (requestSort) gives ascending on the key
\* asked for, unless the sort was ascending on that very key, and then
\* descending; it leaves workspaceDetails and the filters as they were.
C30_SortToggle == [][C30_Step]_vars

\* the sort stands descending on owner, over two records and with a filter
\* on the name
C30_Witness ==
    /\ app.sortConfig = [key |-> "owner", direction |-> "descending"]
    /\ Len(app.workspaceDetails) = 2
    /\ app.filters["workspaceName"] = JsString(<<"alpha">>)

====
